---- MODULE Spec2Model ----
(***************************************************************************)
(* A model of the two Megaverse scripts of the repository.                 *)
(*                                                                         *)
(*   A.py    : MegaverseCreator.create_polyanet_cross calls                *)
(*             MegaverseAPI.create_polyanet for every generated position,  *)
(*             one after the other; create_polyanet retries on HTTP 429    *)
(*             with a doubling delay.                                      *)
(*   main.py : main fetches the goal map, submits one handle_position task *)
(*             per cell to a ThreadPoolExecutor and leaves the with-block  *)
(*             when the pool has shut down; each create_* function and     *)
(*             create_object are wrapped by retry_operation.               *)
(*                                                                         *)
(* A run executes one of the two scripts (variable program).  Strings are  *)
(* sequences of one-character strings, so that lower() and split("_") are  *)
(* computed as Python computes them.                                       *)
(***************************************************************************)
EXTENDS Integers, Sequences, FiniteSets, TLC

\* ------------------------------------------------------------------ bounds
\* Largest grid size handed to create_polyanet_cross (A.py).
MaxSize == 5
\* Number of cells of the single-row goal map that saturates the worker pool.
PoolCells == 11

\* ------------------------------------------------------- program constants
\* main.py: retry_operation(retry_attempts=3, wait_time=1)
retry_attempts == 3
wait_time == 1
\* main.py: ThreadPoolExecutor(max_workers=10)
max_workers == 10
\* A.py: max_retries = 5, retry_delay = 2
max_retries == 5
initial_retry_delay == 2

\* ----------------------------------------------------------------- strings
UpperChars == <<"A","B","C","D","E","F","G","H","I","J","K","L","M",
                "N","O","P","Q","R","S","T","U","V","W","X","Y","Z">>
LowerChars == <<"a","b","c","d","e","f","g","h","i","j","k","l","m",
                "n","o","p","q","r","s","t","u","v","w","x","y","z">>

\* str.lower() on one character
LowerChar(c) ==
  IF \E i \in 1..Len(UpperChars) : UpperChars[i] = c
  THEN LowerChars[CHOOSE i \in 1..Len(UpperChars) : UpperChars[i] = c]
  ELSE c

\* str.lower()
Lower(s) == [i \in 1..Len(s) |-> LowerChar(s[i])]

\* str.upper(), used only to build the goal maps handed to the program
UpperChar(c) ==
  IF \E i \in 1..Len(LowerChars) : LowerChars[i] = c
  THEN UpperChars[CHOOSE i \in 1..Len(LowerChars) : LowerChars[i] = c]
  ELSE c

Upper(s) == [i \in 1..Len(s) |-> UpperChar(s[i])]

\* str.split("_"): the segments between underscores; "" gives [""]
RECURSIVE SplitFrom(_, _, _)
SplitFrom(s, i, cur) ==
  IF i > Len(s) THEN <<cur>>
  ELSE IF s[i] = "_" THEN <<cur>> \o SplitFrom(s, i + 1, <<>>)
  ELSE SplitFrom(s, i + 1, Append(cur, s[i]))

Split(s) == SplitFrom(s, 1, <<>>)

\* string literals of main.py
STR_EMPTY == <<"E","M","P","T","Y">>
str_polyanet == <<"p","o","l","y","a","n","e","t">>
str_soloon == <<"s","o","l","o","o","n">>
str_cometh == <<"c","o","m","e","t","h">>

\* ------------------------------------------------------------ handle_position
\* What handle_position does with one cell value: the create function it
\* calls and the attribute it passes, or "none" when it calls nothing.
NoCommand == [kind |-> "none", attr |-> <<>>]

CellCommand_NoLower(cell) ==
  IF cell = STR_EMPTY THEN NoCommand
  ELSE IF cell = str_polyanet THEN [kind |-> "polyanet", attr |-> <<>>]
  ELSE LET value_parts == Split(cell)
           attribute == value_parts[1]
           object_type == value_parts[Len(value_parts)]
       IN IF object_type = str_soloon THEN [kind |-> "soloon", attr |-> attribute]
          ELSE IF object_type = str_cometh THEN [kind |-> "cometh", attr |-> attribute]
          ELSE NoCommand

CellCommand(cell) ==
  IF cell = STR_EMPTY THEN NoCommand
  ELSE LET cell_value == Lower(cell) IN
    IF cell_value = str_polyanet THEN [kind |-> "polyanet", attr |-> <<>>]
    ELSE LET value_parts == Split(cell_value)
             attribute == value_parts[1]
             object_type == value_parts[Len(value_parts)]
         IN IF object_type = str_soloon THEN [kind |-> "soloon", attr |-> attribute]
            ELSE IF object_type = str_cometh THEN [kind |-> "cometh", attr |-> attribute]
            ELSE NoCommand

\* ---------------------------------------------------------------- the service
\* What one POST can be answered with: a 2xx status, 429, another 4xx, a 5xx, or
\* no answer at all (a connection-level requests.RequestException).
Responses == {"2xx", "429", "4xx", "5xx", "conn"}

\* response.raise_for_status(): raises requests.HTTPError for 4xx and 5xx
RaisesHTTPError(resp) == resp \in {"429", "4xx", "5xx"}

\* requests.post raises a RequestException that is no HTTPError
RaisesConnectionError(resp) == resp = "conn"

VARIABLES
  program,        \* "A" or "main": the script this run executes
  service,        \* "any": a POST may get any response; "reliable": always 2xx
  \* ---- A.py
  a_pc,           \* "loop" | "call" | "returned" | "finished"
  a_size,         \* argument of create_polyanet_cross
  a_idx,          \* index (from 1) of the position the for loop is at
  a_attempt,      \* create_polyanet: attempts completed by the for loop
  a_retry_delay,  \* create_polyanet: retry_delay
  a_posts,        \* POSTs issued by the current call
  a_delays,       \* the time.sleep arguments of the current call, in order
  a_resps,        \* the responses the current call received, in order
  a_ret,          \* the current call's return value: "True" | "False", "none" while it runs
  a_results,      \* return values of the finished calls, in call order
  \* ---- main.py
  server_goal,    \* body the service answers the GET with
  main_pc,        \* "fetch" | "dispatch" | "done" | "error"
  fetch_attempt,  \* fetch_goal_map's wrapper: attempts completed
  goal_matrix,    \* main's goal_matrix, <<>> before the fetch returns
  row_idx,        \* main's loop variables (from 0, as in the code)
  col_idx,
  queue,          \* the executor's work queue: positions, oldest first
  tasks,          \* per submitted position: the state of its handle_position call
  log             \* the logging records written so far: <<level, message, position>>,
                  \* the position <<>> for a record about no cell

avars == <<a_pc, a_size, a_idx, a_attempt, a_retry_delay, a_posts, a_delays,
           a_resps, a_ret, a_results>>
mvars == <<server_goal, main_pc, fetch_attempt, goal_matrix, row_idx, col_idx,
           queue, tasks, log>>
vars == <<program, service, avars, mvars>>

\* ==================================================================== A.py
\* MegaverseCreator.generate_polyanet_positions
RECURSIVE PositionsFrom(_, _)
PositionsFrom(i, size) ==
  IF i >= size THEN <<>>
  ELSE (IF i \in {2, 8, 3, 7, 4, 6} THEN << <<i, i>>, <<i, size - 1 - i>> >>
        ELSE IF i = 5 THEN << <<i, i>> >>
        ELSE <<>>) \o PositionsFrom(i + 1, size)

generate_polyanet_positions(size) == PositionsFrom(0, size)

\* create_polyanet, line 39: for attempt in range(max_retries)
A_LoopRuns_OneMore(attempt) == attempt <= max_retries
A_LoopRuns(attempt) == attempt < max_retries

\* create_polyanet, line 46: response.status_code == 429
A_IsRateLimited_Never(resp) == FALSE
A_IsRateLimited(resp) == resp = "429"

\* create_polyanet, line 49: retry_delay *= 2
A_NextDelay_Quadruple(d) == d * 4
A_NextDelay(d) == d * 2

\* create_polyanet_cross, line 100: the loop takes the next position and calls
\* create_polyanet, whose locals are set by lines 36-37.
A_CallStart ==
  /\ program = "A" /\ a_pc = "loop"
  /\ a_idx <= Len(generate_polyanet_positions(a_size))
  /\ a_pc' = "call"
  /\ a_attempt' = 0
  /\ a_retry_delay' = initial_retry_delay
  /\ a_posts' = 0
  /\ a_delays' = <<>>
  /\ a_resps' = <<>>
  /\ a_ret' = "none"
  /\ UNCHANGED <<a_size, a_idx, a_results, program, service, mvars>>

\* One pass of create_polyanet's for loop: the POST and what follows from its
\* response (lines 40-55); when the loop is exhausted by this pass the call
\* falls through to lines 57-58.
A_Attempt(resp) ==
  /\ program = "A" /\ a_pc = "call"
  /\ A_LoopRuns(a_attempt)
  /\ a_posts' = a_posts + 1
  /\ a_resps' = Append(a_resps, resp)
  /\ IF RaisesConnectionError(resp)
     THEN \* except requests.RequestException: return False
          /\ a_ret' = "False" /\ a_pc' = "returned"
          /\ UNCHANGED <<a_attempt, a_retry_delay, a_delays>>
     ELSE IF ~RaisesHTTPError(resp)
     THEN \* return True
          /\ a_ret' = "True" /\ a_pc' = "returned"
          /\ UNCHANGED <<a_attempt, a_retry_delay, a_delays>>
     ELSE IF A_IsRateLimited(resp)
     THEN \* time.sleep(retry_delay); retry_delay *= 2
          /\ a_delays' = Append(a_delays, a_retry_delay)
          /\ a_retry_delay' = A_NextDelay(a_retry_delay)
          /\ a_attempt' = a_attempt + 1
          /\ IF A_LoopRuns(a_attempt + 1)
             THEN a_pc' = "call" /\ a_ret' = a_ret
             ELSE a_pc' = "returned" /\ a_ret' = "False"
     ELSE \* another HTTP error: return False
          /\ a_ret' = "False" /\ a_pc' = "returned"
          /\ UNCHANGED <<a_attempt, a_retry_delay, a_delays>>
  /\ UNCHANGED <<a_size, a_idx, a_results, program, service, mvars>>

\* create_polyanet_cross, lines 100-101: the for loop goes on to the next
\* position whatever the call returned.
A_NextIndex_StopOnFailure(idx, ret) ==
  IF ret = "False" THEN Len(generate_polyanet_positions(a_size)) + 1 ELSE idx + 1
A_NextIndex(idx, ret) == idx + 1

\* create_polyanet_cross, lines 100-101: the call returns, its value is
\* dropped, and the loop goes on to the next position.
A_Return ==
  /\ program = "A" /\ a_pc = "returned"
  /\ a_results' = Append(a_results, a_ret)
  /\ a_idx' = A_NextIndex(a_idx, a_ret)
  /\ a_pc' = "loop"
  /\ UNCHANGED <<a_size, a_attempt, a_retry_delay, a_posts, a_delays, a_resps,
                 a_ret, program, service, mvars>>

\* A.py main, line 112: the loop is over
A_Finish ==
  /\ program = "A" /\ a_pc = "loop"
  /\ a_idx > Len(generate_polyanet_positions(a_size))
  /\ a_pc' = "finished"
  /\ UNCHANGED <<a_size, a_idx, a_attempt, a_retry_delay, a_posts, a_delays,
                 a_resps, a_ret, a_results, program, service, mvars>>

NextA ==
  \/ A_CallStart
  \/ \E resp \in Responses : A_Attempt(resp)
  \/ A_Return
  \/ A_Finish

\* ================================================================== main.py
\* retry_operation.wrapper, line 25: for attempt in range(retry_attempts)
RetryLoopRuns_OneMore(attempt) == attempt <= retry_attempts
RetryLoopRuns(attempt) == attempt < retry_attempts

\* retry_operation.wrapper, line 28: except requests.RequestException
\* (requests.HTTPError is one)
CaughtByRetry_Everything(resp) == TRUE
CaughtByRetry(resp) == RaisesHTTPError(resp) \/ RaisesConnectionError(resp)

\* ThreadPoolExecutor(max_workers=10): a queued work item starts only on one of
\* at most max_workers threads.
ThreadAvailable_Always(n_running) == TRUE
ThreadAvailable_NoThreads(n_running) == n_running < 0
ThreadAvailable(n_running) == n_running < max_workers

\* What the service may answer in this run.
Answers == IF service = "reliable" THEN {"2xx"} ELSE Responses

Running == {p \in DOMAIN tasks : tasks[p].st \in {"running", "creating"}}

\* The with-block's exit, executor.shutdown(wait=True): every submitted work
\* item has run to its end.
PoolDrained == queue = <<>> /\ \A p \in DOMAIN tasks : tasks[p].st = "done"

\* The state of a work item at executor.submit.
NewTask ==
  [st |-> "queued",         \* "queued" | "running" | "creating" | "done"
   cmd |-> NoCommand,       \* the create call handle_position made
   calls |-> 0,             \* number of create_* calls handle_position made
   outer |-> 0,             \* attempts completed by create_*'s wrapper
   inner |-> 0,             \* attempts completed by create_object's wrapper
   posts |-> 0,             \* POSTs issued
   ok_posts |-> 0,          \* POSTs answered 2xx
   first_perm |-> FALSE,    \* the first POST was answered 4xx other than 429
   all_retryworthy |-> TRUE,\* every POST so far was answered 429, 5xx or not at all
   delays |-> <<>>,         \* the wrappers' time.sleep(wait_time) arguments, in order
   outcome |-> "none"]      \* the Future: "none" | "returned" | "raised"

\* fetch_goal_map under its wrapper (lines 23-33, 51-56) and main's handling of
\* what it raises (lines 144, 154-155): one GET and what follows from it.
Fetch(ok) ==
  /\ program = "main" /\ main_pc = "fetch"
  /\ IF ~ok
     THEN \* requests.RequestException: warning, sleep, next attempt or raise
          /\ fetch_attempt' = fetch_attempt + 1
          /\ IF RetryLoopRuns(fetch_attempt + 1)
             THEN /\ main_pc' = "fetch"
                  /\ log' = log \cup {<<"WARNING", "retrying fetch_goal_map", <<>> >>}
             ELSE /\ main_pc' = "error"
                  /\ log' = log \cup {<<"WARNING", "retrying fetch_goal_map", <<>> >>,
                                      <<"ERROR", "error occurred", <<>> >>}
          /\ UNCHANGED goal_matrix
     ELSE IF server_goal.has_goal
     THEN /\ goal_matrix' = server_goal.goal
          /\ main_pc' = "dispatch"
          /\ fetch_attempt' = 0
          /\ log' = log \cup {<<"INFO", "retrieved goal map", <<>> >>}
     ELSE \* response.json()['goal'] raises KeyError, which the wrapper lets through
          /\ main_pc' = "error"
          /\ log' = log \cup {<<"ERROR", "error occurred", <<>> >>}
          /\ UNCHANGED <<goal_matrix, fetch_attempt>>
  /\ UNCHANGED <<server_goal, row_idx, col_idx, queue, tasks, program, service, avars>>

\* main, lines 149-151: executor.submit for the cell the loops are at
Submit ==
  /\ program = "main" /\ main_pc = "dispatch"
  /\ row_idx < Len(goal_matrix)
  /\ queue' = Append(queue, <<row_idx, col_idx>>)
  /\ tasks' = tasks @@ (<<row_idx, col_idx>> :> NewTask)
  /\ IF col_idx + 1 < Len(goal_matrix[1])
     THEN col_idx' = col_idx + 1 /\ row_idx' = row_idx
     ELSE col_idx' = 0 /\ row_idx' = row_idx + 1
  /\ UNCHANGED <<server_goal, main_pc, fetch_attempt, goal_matrix, log,
                 program, service, avars>>

\* A pool thread takes the oldest work item and starts running it.
Take ==
  /\ program = "main"
  /\ queue # <<>>
  /\ ThreadAvailable(Cardinality(Running))
  /\ tasks' = [tasks EXCEPT ![Head(queue)].st = "running"]
  /\ queue' = Tail(queue)
  /\ UNCHANGED <<server_goal, main_pc, fetch_attempt, goal_matrix, row_idx, col_idx,
                 log, program, service, avars>>

\* handle_position, lines 120-133: the cell is read and either nothing is
\* called (the task returns) or one create_* function is entered.
HandleStart(p) ==
  /\ program = "main"
  /\ p \in DOMAIN tasks /\ tasks[p].st = "running"
  /\ LET c == CellCommand(goal_matrix[p[1] + 1][p[2] + 1]) IN
       IF c.kind = "none"
       THEN tasks' = [tasks EXCEPT ![p].st = "done", ![p].outcome = "returned"]
       ELSE tasks' = [tasks EXCEPT ![p].st = "creating", ![p].cmd = c,
                                   ![p].calls = @ + 1]
  /\ UNCHANGED <<server_goal, main_pc, fetch_attempt, goal_matrix, row_idx, col_idx,
                 queue, log, program, service, avars>>

\* One pass of create_object's wrapper loop inside create_*'s wrapper loop
\* (lines 23-33 twice, 71-76): the fixed time.sleep(10), the POST, and what
\* follows from its response, up to the point where the next POST is due or
\* the task ends.  The fixed sleep changes no state; the wrappers' sleeps are
\* recorded in delays.
Post(p, resp) ==
  /\ program = "main"
  /\ p \in DOMAIN tasks /\ tasks[p].st = "creating"
  /\ LET t == tasks[p]
         h == [t EXCEPT !.posts = @ + 1,
                        !.ok_posts = IF resp = "2xx" THEN @ + 1 ELSE @,
                        !.first_perm = IF t.posts = 0 THEN resp = "4xx" ELSE @,
                        !.all_retryworthy = @ /\ resp \in {"429", "5xx", "conn"}]
     IN IF ~CaughtByRetry(resp)
        THEN \* both wrappers return; handle_position returns
             /\ tasks' = [tasks EXCEPT ![p] = [h EXCEPT !.st = "done",
                                                        !.outcome = "returned"]]
             /\ log' = log \cup {<<"INFO", "created", p>>}
        ELSE /\ log' = log \cup {<<"WARNING", "retrying", p>>}
             /\ IF RetryLoopRuns(t.inner + 1)
                THEN \* create_object's wrapper sleeps and goes round again
                     tasks' = [tasks EXCEPT ![p] =
                                 [h EXCEPT !.inner = @ + 1,
                                           !.delays = Append(@, wait_time)]]
                ELSE IF RetryLoopRuns(t.outer + 1)
                THEN \* create_object's wrapper sleeps and raises; create_*'s
                     \* wrapper catches, sleeps and calls create_object again
                     tasks' = [tasks EXCEPT ![p] =
                                 [h EXCEPT !.inner = 0, !.outer = @ + 1,
                                           !.delays = @ \o <<wait_time, wait_time>>]]
                ELSE \* both wrappers are exhausted: the exception leaves
                     \* handle_position and is stored in the Future
                     tasks' = [tasks EXCEPT ![p] =
                                 [h EXCEPT !.inner = @ + 1, !.outer = @ + 1,
                                           !.delays = @ \o <<wait_time, wait_time>>,
                                           !.st = "done", !.outcome = "raised"]]
  /\ UNCHANGED <<server_goal, main_pc, fetch_attempt, goal_matrix, row_idx, col_idx,
                 queue, program, service, avars>>

\* main, lines 148-153: the loops are over, the with-block waits for the pool
\* and main logs completion.
Join ==
  /\ program = "main" /\ main_pc = "dispatch"
  /\ row_idx >= Len(goal_matrix)
  /\ PoolDrained
  /\ main_pc' = "done"
  /\ log' = log \cup {<<"INFO", "completed", <<>> >>}
  /\ UNCHANGED <<server_goal, fetch_attempt, goal_matrix, row_idx, col_idx,
                 queue, tasks, program, service, avars>>

\* main, lines 154-159: main returns normally from the try block and from the
\* except block alike, and the script ends without sys.exit: the process's
\* exit status once main is at pc.
ExitStatus(pc) == CASE pc = "done" -> 0 [] pc = "error" -> 0

NextMain ==
  \/ \E ok \in (IF service = "reliable" THEN {TRUE} ELSE BOOLEAN) : Fetch(ok)
  \/ Submit
  \/ Take
  \/ \E p \in DOMAIN tasks : HandleStart(p)
  \/ \E p \in DOMAIN tasks : \E resp \in Answers : Post(p, resp)
  \/ Join

\* ============================================================== the inputs
Colors == {<<"b","l","u","e">>, <<"r","e","d">>, <<"p","u","r","p","l","e">>,
           <<"w","h","i","t","e">>}
Directions == {<<"u","p">>, <<"d","o","w","n">>, <<"l","e","f","t">>,
               <<"r","i","g","h","t">>}

\* The cell code the service writes for an object: "<ATTRIBUTE>_<KIND>"
CodeOf(attr, kind) == Upper(attr) \o <<"_">> \o Upper(kind)

POLYANET == Upper(str_polyanet)
RED_SOLOON == CodeOf(<<"r","e","d">>, str_soloon)
UP_COMETH == CodeOf(<<"u","p">>, str_cometh)
FOO_BAR_BAZ == <<"F","O","O","_","B","A","R","_","B","A","Z">>

\* Well-formed cell codes, each with the object it stands for.
WellFormedCells ==
  {[code |-> STR_EMPTY, kind |-> "none", attr |-> <<>>]}
  \cup {[code |-> c, kind |-> "polyanet", attr |-> <<>>] :
          c \in {POLYANET, str_polyanet, <<"P","o","l","y","a","n","e","t">>}}
  \cup {[code |-> CodeOf(a, str_soloon), kind |-> "soloon", attr |-> a] : a \in Colors}
  \cup {[code |-> CodeOf(a, str_cometh), kind |-> "cometh", attr |-> a] : a \in Directions}
  \cup {[code |-> <<"R","e","d","_","S","o","l","o","o","n">>, kind |-> "soloon",
         attr |-> <<"r","e","d">>]}

WellFormedCodes == {w.code : w \in WellFormedCells}

\* Cell values that are none of EMPTY, POLYANET, <attribute>_SOLOON, <attribute>_COMETH
MalformedCodes ==
  {FOO_BAR_BAZ, <<>>, <<"1","2","3">>, <<"e","m","p","t","y">>, Upper(str_soloon),
   <<"R","E","D","_","S","O","L","O","O","N","S">>}

Codes == WellFormedCodes \cup MalformedCodes

\* The goal map of the end-to-end scenario.
ExampleGoal == << <<STR_EMPTY, POLYANET>>, <<RED_SOLOON, UP_COMETH>> >>

\* Goal maps dispatched against a service that may answer anything.
AnyServiceGoals ==
  {<< <<c>> >> : c \in Codes}
  \cup {<< <<POLYANET, RED_SOLOON>> >>, << <<UP_COMETH>>, <<FOO_BAR_BAZ>> >>}

\* Goal maps dispatched against a service that answers every request 2xx.
ReliableServiceGoals ==
  {<< <<c, d>> >> : c \in Codes, d \in Codes}
  \cup {<< <<c>>, <<d>> >> : c \in Codes, d \in Codes}
  \cup {ExampleGoal, <<>>}

\* One row of PoolCells cells: more tasks than the pool has threads.
PoolGoal == << [i \in 1..PoolCells |-> IF i = 1 THEN POLYANET ELSE STR_EMPTY] >>

InitAVars ==
  /\ a_pc = "loop" /\ a_idx = 1 /\ a_attempt = 0
  /\ a_retry_delay = initial_retry_delay
  /\ a_posts = 0 /\ a_delays = <<>> /\ a_resps = <<>> /\ a_ret = "none"
  /\ a_results = <<>>

InitMainVars ==
  /\ main_pc = "fetch" /\ fetch_attempt = 0 /\ goal_matrix = <<>>
  /\ row_idx = 0 /\ col_idx = 0 /\ queue = <<>> /\ tasks = <<>> /\ log = {}

\* A.py: create_polyanet_cross(size)
InitA ==
  /\ program = "A" /\ service = "any"
  /\ a_size \in 0..MaxSize
  /\ server_goal = [has_goal |-> FALSE, goal |-> <<>>]
  /\ InitAVars /\ InitMainVars

\* main.py against a service that may answer anything, holding one of the
\* goal maps or answering the GET with a body that has no goal key.
InitMainAny ==
  /\ program = "main"
  /\ service = "any"
  /\ server_goal \in {[has_goal |-> TRUE, goal |-> g] : g \in AnyServiceGoals}
                     \cup {[has_goal |-> FALSE, goal |-> <<>>]}
  /\ a_size = 0
  /\ InitAVars /\ InitMainVars

\* main.py against a service that answers every request 2xx.
InitMainReliable ==
  /\ program = "main"
  /\ service = "reliable"
  /\ server_goal \in {[has_goal |-> TRUE, goal |-> g] : g \in ReliableServiceGoals}
  /\ a_size = 0
  /\ InitAVars /\ InitMainVars

InitMain == InitMainAny \/ InitMainReliable

InitPool ==
  /\ program = "main"
  /\ service = "any"
  /\ server_goal = [has_goal |-> TRUE, goal |-> PoolGoal]
  /\ a_size = 0
  /\ InitAVars /\ InitMainVars

Init == InitA \/ InitMain

Next == NextA \/ NextMain

Spec == Init /\ [][Next]_vars

\* main.py alone, against the service that may answer anything.  The
\* scheduler runs every thread that can take a step and every request is
\* answered: a step that stays possible is eventually taken.
FairSpec == InitMainAny /\ [][NextMain]_vars /\ WF_vars(NextMain)

SpecPool == InitPool /\ [][NextMain]_vars

\* =============================================================== the claims
All429(resps) == \A i \in 1..Len(resps) : resps[i] = "429"

NonDecreasing(ds) == \A i \in 1..Len(ds) - 1 : ds[i] <= ds[i + 1]

RECURSIVE Pow2(_)
Pow2(n) == IF n = 0 THEN 1 ELSE 2 * Pow2(n - 1)

\* create_polyanet is executing or has just returned
A_InCall == program = "A" /\ a_pc \in {"call", "returned"}

\* The cell a task was submitted for.
CellAt(p) == goal_matrix[p[1] + 1][p[2] + 1]

GridPositions(g) ==
  IF g = <<>> THEN {}
  ELSE {<<r, c>> : r \in 0..(Len(g) - 1), c \in 0..(Len(g[1]) - 1)}

\* Every position of every goal map dispatched against the unreliable service.
AllPositions == UNION {GridPositions(g) : g \in AnyServiceGoals}

\* C1: in main.py a create command whose every POST fails with a retry-worthy
\* failure (429, 5xx, connection error) makes exactly retry_attempts POSTs and
\* then stops with a terminal failure: it never makes more, and once it has made
\* that many it has stopped, failed.  Stated for the commands of well-formed
\* cells.
C1_ExactlyMaxAttempts ==
  \A p \in DOMAIN tasks :
    (CellAt(p) \in WellFormedCodes /\ tasks[p].posts > 0 /\ tasks[p].all_retryworthy) =>
      /\ tasks[p].posts <= retry_attempts
      /\ tasks[p].posts = retry_attempts =>
           (tasks[p].st = "done" /\ tasks[p].outcome = "raised")

\* C2: for every create operation (create_polyanet of A.py; the create
\* functions of main.py), a first POST answered with a permanent failure (4xx
\* other than 429) is the only POST of the command, which stops failed.
\* Stated for the commands of well-formed cells.
C2_PermanentFailureNotRetried ==
  /\ (A_InCall /\ Len(a_resps) >= 1 /\ a_resps[1] = "4xx") =>
       (a_posts = 1 /\ a_pc = "returned" /\ a_ret = "False")
  /\ \A p \in DOMAIN tasks :
       (CellAt(p) \in WellFormedCodes /\ tasks[p].first_perm) =>
         (tasks[p].posts = 1 /\ tasks[p].st = "done" /\ tasks[p].outcome = "raised")

\* C3: A.py's create_polyanet, answered 429 on its first k attempts (k <
\* max_retries) and 2xx on attempt k+1, goes on attempting while it is answered
\* 429 and returns True after exactly k+1 POSTs.
C3_SuccessAfterRateLimits ==
  /\ (A_InCall /\ All429(a_resps) /\ Len(a_resps) < max_retries) =>
       (a_pc = "call" /\ a_posts = Len(a_resps))
  /\ (A_InCall /\ Len(a_resps) >= 1 /\ a_resps[Len(a_resps)] = "2xx"
        /\ All429(SubSeq(a_resps, 1, Len(a_resps) - 1))) =>
       /\ a_pc = "returned" /\ a_ret = "True"
       /\ a_posts = Len(a_resps)
       /\ Len(a_resps) - 1 < max_retries

C3_Witness ==
  /\ program = "A" /\ a_pc = "returned" /\ a_ret = "True" /\ a_posts = 4
  /\ a_resps = <<"429", "429", "429", "2xx">>

\* C4: A.py's create_polyanet, answered 429 on every attempt, makes exactly
\* max_retries POSTs and then returns False: no return before the last of them,
\* no POST after it.
C4_RateLimitedEveryAttempt ==
  (A_InCall /\ All429(a_resps)) =>
    /\ a_posts = Len(a_resps)
    /\ a_posts <= max_retries
    /\ a_posts < max_retries => (a_pc = "call" /\ a_ret = "none")
    /\ a_posts = max_retries => (a_pc = "returned" /\ a_ret = "False")

C4_Witness ==
  /\ program = "A" /\ a_pc = "returned" /\ a_ret = "False"
  /\ Len(a_resps) = max_retries /\ All429(a_resps)

C6_AtMostMaxWorkersRunning == Cardinality(Running) <= max_workers

C6_Witness ==
  /\ Cardinality(Running) = max_workers
  /\ queue # <<>>
  /\ \E p \in Running : tasks[p].st = "creating" /\ tasks[p].posts >= retry_attempts

\* C7: every submitted command eventually reaches a terminal outcome, and main
\* is past the with-block and has logged completion only when every cell's
\* task has been submitted and is terminal.
C7_AllCommandsTerminate ==
  /\ \A p \in AllPositions :
       (p \in DOMAIN tasks) ~> (p \in DOMAIN tasks /\ tasks[p].st = "done")
  /\ [](((main_pc = "done") \/ (<<"INFO", "completed", <<>> >> \in log)) =>
          /\ DOMAIN tasks = GridPositions(goal_matrix)
          /\ \A p \in DOMAIN tasks :
               tasks[p].st = "done" /\ tasks[p].outcome \in {"returned", "raised"})

C7_Witness ==
  /\ main_pc = "done"
  /\ \E p \in DOMAIN tasks : tasks[p].outcome = "raised"
  /\ \E p \in DOMAIN tasks : tasks[p].outcome = "returned" /\ tasks[p].posts > 1

\* C8: when main.py has finished dispatch, every command's terminal outcome is
\* recorded: a success as created, a terminal failure as an error record
\* carrying the command's position.  Stated for the commands of well-formed
\* cells.
C8_EveryOutcomeRecorded ==
  main_pc = "done" =>
    \A p \in DOMAIN tasks :
      (CellAt(p) \in WellFormedCodes /\ tasks[p].calls > 0) =>
        /\ tasks[p].outcome = "returned" => <<"INFO", "created", p>> \in log
        /\ tasks[p].outcome = "raised" =>
             \E r \in log : r[1] = "ERROR" /\ r[3] = p

\* The object a well-formed cell code stands for.
Expected(code) == CHOOSE w \in WellFormedCells : w.code = code

WellFormedGoal(g) ==
  \A p \in GridPositions(g) : g[p[1] + 1][p[2] + 1] \in WellFormedCodes

\* The create commands issued so far: <<position, kind, attribute>>
Commands ==
  {<<p, tasks[p].cmd.kind, tasks[p].cmd.attr>> : p \in {q \in DOMAIN tasks : tasks[q].calls > 0}}

\* C9: for a goal map of well-formed cells main.py issues one create command
\* per non-empty cell, of the cell's kind, at the cell's position and with the
\* cell's attribute, and none for an EMPTY cell; the example goal map yields
\* Polyanet@(0,1), Soloon{red}@(1,0), Cometh{up}@(1,1).
C9_OneCommandPerNonEmptyCell ==
  (program = "main" /\ WellFormedGoal(goal_matrix)) =>
    /\ \A p \in DOMAIN tasks :
         tasks[p].st \in {"creating", "done"} =>
           LET e == Expected(CellAt(p)) IN
             /\ tasks[p].cmd = [kind |-> e.kind, attr |-> e.attr]
             /\ tasks[p].calls = (IF CellAt(p) = STR_EMPTY THEN 0 ELSE 1)
    /\ main_pc = "done" =>
         /\ DOMAIN tasks = GridPositions(goal_matrix)
         /\ Cardinality(Commands) =
              Cardinality({p \in GridPositions(goal_matrix) : CellAt(p) # STR_EMPTY})
    /\ (main_pc = "done" /\ goal_matrix = ExampleGoal) =>
         Commands = {<< <<0, 1>>, "polyanet", <<>> >>,
                     << <<1, 0>>, "soloon", <<"r","e","d">> >>,
                     << <<1, 1>>, "cometh", <<"u","p">> >>}

C9_Witness ==
  /\ main_pc = "done" /\ goal_matrix = ExampleGoal
  /\ Cardinality(Commands) = 3

\* C10: a malformed cell value ends handle_position in a parse error: the task
\* raises without having made a create call.
C10_MalformedIsParseError ==
  \A p \in DOMAIN tasks :
    (CellAt(p) \in MalformedCodes /\ tasks[p].st \in {"creating", "done"}) =>
      (tasks[p].st = "done" /\ tasks[p].outcome = "raised" /\ tasks[p].calls = 0)

\* Some cell of the goal map is malformed.
HasMalformedCell(g) ==
  \E p \in GridPositions(g) : g[p[1] + 1][p[2] + 1] \in MalformedCodes

\* C11: a run of main.py whose goal map has a malformed cell is aborted before
\* dispatch: no POST is issued for any cell of that goal map.  Stated for the
\* well-formed cells of such a goal map.
C11_MalformedCellAbortsRun ==
  (program = "main" /\ HasMalformedCell(goal_matrix)) =>
    \A p \in DOMAIN tasks : CellAt(p) \in WellFormedCodes => tasks[p].posts = 0

\* C12: when fetch_goal_map delivers no goal matrix (the body has no goal key,
\* or every permitted GET failed) main.py ends in the fetch error and nothing
\* is dispatched: no task is submitted and no POST is issued.
C12_FetchFailureDispatchesNothing ==
  program = "main" =>
    /\ ~server_goal.has_goal => (main_pc \in {"fetch", "error"} /\ goal_matrix = <<>>)
    /\ fetch_attempt = retry_attempts => main_pc = "error"
    /\ fetch_attempt <= retry_attempts
    /\ main_pc = "error" =>
         /\ <<"ERROR", "error occurred", <<>> >> \in log
         /\ goal_matrix = <<>> /\ tasks = <<>> /\ queue = <<>>
         /\ \A r \in log : r[3] = <<>>

C12_Witness ==
  /\ program = "main" /\ main_pc = "error"
  /\ fetch_attempt = retry_attempts
  /\ server_goal.has_goal

\* C13: a terminal failure of one command aborts no sibling.  A.py's loop
\* has called create_polyanet for every generated position when it is over,
\* whatever the calls returned; main.py is past the with-block only with every
\* cell's task run to its own terminal outcome, a command with at least one
\* POST made, whatever the other tasks ended with.
C13_FailuresAreIsolated ==
  /\ (program = "A" /\ a_pc = "finished") =>
       Len(a_results) = Len(generate_polyanet_positions(a_size))
  /\ (program = "A" /\ a_pc = "loop"
        /\ Len(a_results) < Len(generate_polyanet_positions(a_size))) =>
       a_idx = Len(a_results) + 1
  /\ (program = "main" /\ main_pc = "done") =>
       /\ DOMAIN tasks = GridPositions(goal_matrix)
       /\ \A p \in DOMAIN tasks :
            /\ tasks[p].st = "done"
            /\ tasks[p].calls > 0 =>
                 (tasks[p].posts >= 1 /\ tasks[p].outcome \in {"returned", "raised"})

C13_Witness ==
  /\ program = "A" /\ a_pc = "finished"
  /\ Len(a_results) >= 2
  /\ a_results[1] = "False" /\ a_results[2] = "True"

\* C14: the process run by main.py ends with a non-zero exit status when the
\* goal-map fetch fails (or a cell is unparseable before dispatch), and with
\* status zero otherwise.
C14_ExitStatus ==
  /\ (program = "main" /\ main_pc = "error") => ExitStatus(main_pc) # 0
  /\ (program = "main" /\ main_pc = "done" /\ ~HasMalformedCell(goal_matrix)) =>
       ExitStatus(main_pc) = 0

\* C15: in A.py's create_polyanet a transient failure (5xx, or a connection
\* failure) on an attempt before the last is handled like a 429: the call has
\* waited a backoff delay for it and goes on to another attempt.
C15_TransientFailureRetried ==
  (A_InCall /\ Len(a_resps) >= 1 /\ Len(a_resps) < max_retries
     /\ a_resps[Len(a_resps)] \in {"5xx", "conn"}) =>
    (a_pc = "call" /\ a_ret = "none" /\ Len(a_delays) = Len(a_resps))

\* C16: a backoff wait happens only between two attempts, so a command whose
\* every attempt fails with a retry-worthy failure has waited exactly one time
\* fewer than it has attempted when it stops, in A.py's create_polyanet and
\* under main.py's retry_operation.  Stated for the commands of well-formed
\* cells.
C16_NoWaitAfterLastAttempt ==
  /\ (program = "A" /\ a_pc = "returned" /\ a_ret = "False"
        /\ All429(a_resps) /\ Len(a_resps) = max_retries) =>
       Len(a_delays) = max_retries - 1
  /\ \A p \in DOMAIN tasks :
       (CellAt(p) \in WellFormedCodes /\ tasks[p].outcome = "raised"
          /\ tasks[p].all_retryworthy) =>
         Len(tasks[p].delays) = tasks[p].posts - 1

\* C17: once a POST of a command has been answered 2xx no further POST is
\* issued for it: in main.py the task has ended, returned, with that one
\* success as its last POST; in A.py the 2xx is the last response of the call,
\* which has returned True.
C17_NoPostAfterSuccess ==
  /\ \A p \in DOMAIN tasks :
       /\ tasks[p].ok_posts <= 1
       /\ tasks[p].ok_posts = 1 => (tasks[p].st = "done" /\ tasks[p].outcome = "returned")
       /\ tasks[p].outcome = "raised" => tasks[p].ok_posts = 0
  /\ \A i \in 1..Len(a_resps) :
       a_resps[i] = "2xx" =>
         (i = Len(a_resps) /\ a_posts = i /\ a_pc # "call" /\ a_ret = "True")

C17_Witness ==
  \E p \in DOMAIN tasks :
    /\ tasks[p].st = "done" /\ tasks[p].outcome = "returned"
    /\ tasks[p].ok_posts = 1 /\ tasks[p].posts = retry_attempts + 1

\* C18: the positions create_polyanet_cross calls create_polyanet for lie in
\* the size x size grid and are pairwise distinct: the call that starts is for
\* a position inside the grid that no earlier call of the run was for.
C18_PositionsInGridAndDistinct ==
  (program = "A" /\ a_pc = "call") =>
    LET positions == generate_polyanet_positions(a_size) IN
      /\ positions[a_idx][1] \in 0..(a_size - 1)
      /\ positions[a_idx][2] \in 0..(a_size - 1)
      /\ \A j \in 1..(a_idx - 1) : positions[j] # positions[a_idx]

====
